---- MODULE Spec2Model ----
(***************************************************************************)
(* The provisioning page of esp32_stt/wifi_portal.h: the scan button, the  *)
(* network list, the credentials form and the two banners, driven by the   *)
(* page's script (scanNetworks and configForm.onsubmit) and by the         *)
(* outcomes of the two fetch calls.  Every step is one task of the         *)
(* browser's event loop: a user event, or the completion of one fetch      *)
(* followed by the whole promise chain attached to it.                     *)
(***************************************************************************)
EXTENDS Integers, Sequences, FiniteSets, Bags, TLC

(* ---- bounds of the model ---------------------------------------------- *)

\* longest networks array a /scan response carries
MaxNetworks == 2
\* most /save requests the model lets be outstanding at once
MaxPendingSave == 2

(* ---- texts of the page (strings stand for the page's Japanese labels) -- *)

\* 'WiFiをスキャン'
IdleLabel == "WiFi scan"
\* 'スキャン中...'
ScanningLabel == "scanning..."
\* '❌ '
Cross == "[x] "
\* 'エラー'
GenericError == "error"
\* '見つかりません'
NotFound == <<"not found">>

(* ---- inputs ------------------------------------------------------------ *)

\* SSIDs are sequences of characters: empty (hidden network), plain, and one
\* holding HTML markup.
Ssids == { <<>>, <<"a">>, <<"<", "a", ">", "a">> }
Passwords == { "", "p" }
Statuses == { 200, 500 }

\* one element of the networks array; a JSON null element has isNull = TRUE
Networks ==
  { [isNull |-> FALSE, ssid |-> <<"a">>, rssi |-> -50],
    [isNull |-> FALSE, ssid |-> <<"<", "a", ">", "a">>, rssi |-> -70],
    [isNull |-> FALSE, ssid |-> <<>>, rssi |-> -90] }
NullEntry == [isNull |-> TRUE, ssid |-> <<>>, rssi |-> 0]

SeqsUpTo(S, n) == UNION { [1..k -> S] : k \in 0..n }

\* a scan result lists each of its networks once
Distinct(s) == \A i, j \in 1..Len(s) : s[i] = s[j] => i = j

\* the networks arrays of the model: arrays of networks, and arrays whose
\* last element is null (the handler reads no element after a null one)
NetworkArrays ==
  { s \in SeqsUpTo(Networks, MaxNetworks) : Distinct(s) }
  \cup { Append(s, NullEntry) :
           s \in { t \in SeqsUpTo(Networks, MaxNetworks - 1) : Distinct(t) } }

\* the value response.json() resolves to for /scan: JSON null, an object
\* without networks, or an object with a networks array
ScanData ==
  { [isNull |-> TRUE, hasNetworks |-> FALSE, networks |-> <<>>],
    [isNull |-> FALSE, hasNetworks |-> FALSE, networks |-> <<>>] }
  \cup { [isNull |-> FALSE, hasNetworks |-> TRUE, networks |-> s] :
           s \in NetworkArrays }

\* the value response.json() resolves to for /save
SaveResults ==
  { [success |-> TRUE,  hasMessage |-> FALSE, message |-> ""],
    [success |-> FALSE, hasMessage |-> FALSE, message |-> ""],
    [success |-> FALSE, hasMessage |-> TRUE,  message |-> ""],
    [success |-> FALSE, hasMessage |-> TRUE,  message |-> "bad password"],
    [success |-> FALSE, hasMessage |-> TRUE,  message |-> "no such network"] }

VARIABLES
  btnDisabled,      \* .scan-btn disabled
  btnLabel,         \* .scan-btn textContent
  pendingScan,      \* fetch('/scan') calls whose promise chain has not run
  rows,             \* children of div#networks
  networksVisible,  \* div#networks style.display = 'block'
  ssidField,        \* input#ssid value
  passwordField,    \* input#password value
  successVisible,   \* div#success displayed
  errorVisible,     \* div#error displayed
  errorText,        \* div#error textContent
  pendingSave       \* bag of the bodies of outstanding POST /save requests

vars == << btnDisabled, btnLabel, pendingScan, rows, networksVisible,
           ssidField, passwordField, successVisible, errorVisible,
           errorText, pendingSave >>

scanVars == << btnDisabled, btnLabel, pendingScan, rows, networksVisible >>
formVars == << ssidField, passwordField >>
saveVars == << successVisible, errorVisible, errorText, pendingSave >>

(* ---- the page as loaded ------------------------------------------------ *)

Init ==
  /\ btnDisabled = FALSE
  /\ btnLabel = IdleLabel
  /\ pendingScan = 0
  /\ rows = <<>>
  /\ networksVisible = FALSE
  /\ ssidField = <<>>
  /\ passwordField = ""
  /\ successVisible = FALSE
  /\ errorVisible = FALSE
  /\ errorText = <<Cross, GenericError>>
  /\ pendingSave = EmptyBag

(* ---- rendering of the network list (scanNetworks, lines 165-182) ------- *)

\* ASCII letters of the model's alphabet
IsLetter(c) == c \in {"a"}

\* the rest of the input after the tag that is open at its start: a tag ends
\* at the first '>'; one the SSID leaves open ends inside the literal markup
\* that follows the SSID, so none of the SSID's remaining characters is text
RECURSIVE SkipTag(_)
SkipTag(s) ==
  IF s = <<>> THEN <<>>
  ELSE IF Head(s) = ">" THEN Tail(s)
  ELSE SkipTag(Tail(s))

\* the text a span shows after `innerHTML = '<span>' + s + '</span>...'`: the
\* HTML parser takes '<' followed by a letter as the start of a tag and drops
\* the tag from the text; every other character is text
RECURSIVE HtmlText(_)
HtmlText(s) ==
  IF s = <<>> THEN <<>>
  ELSE IF Head(s) = "<" /\ Len(s) >= 2 /\ IsLetter(s[2])
       THEN HtmlText(SkipTag(Tail(s)))
  ELSE <<Head(s)>> \o HtmlText(Tail(s))

\* div.network-item built for one network: ssid is the value the onclick
\* closure holds, shown and signal are what its two spans display
Item(network) ==
  [hasOnclick |-> TRUE, ssid |-> network.ssid,
   shown |-> HtmlText(network.ssid), signal |-> network.rssi]

\* '<div class="network-item">見つかりません</div>', no handler attached
Placeholder ==
  [hasOnclick |-> FALSE, ssid |-> <<>>, shown |-> NotFound, signal |-> 0]

\* data.networks.forEach(...): appends one item per network; reading
\* network.ssid of a null element throws and ends the loop
RECURSIVE ForEach(_, _)
ForEach(networks, acc) ==
  IF networks = <<>> \/ Head(networks).isNull THEN acc
  ELSE ForEach(Tail(networks), Append(acc, Item(Head(networks))))

\* the handler throws: data is null (reading data.networks) or an element of
\* the array is null (reading network.ssid)
Throws(data) ==
  \/ data.isNull
  \/ data.hasNetworks /\ \E i \in 1..Len(data.networks) : data.networks[i].isNull

\* children of div#networks when the handler returns or throws
RowsAfter(data) ==
  IF data.isNull THEN rows
  ELSE IF data.hasNetworks /\ Len(data.networks) > 0
       THEN ForEach(data.networks, <<>>)
  ELSE <<Placeholder>>

(* ---- scanNetworks ------------------------------------------------------ *)

ClickScanNoDisable ==
  /\ ~btnDisabled
  /\ btnLabel' = ScanningLabel
  /\ pendingScan' = pendingScan + 1
  /\ UNCHANGED << btnDisabled, rows, networksVisible, formVars, saveVars >>

\* a click on .scan-btn (a disabled button dispatches no click)
ClickScan ==
  /\ ~btnDisabled
  /\ btnLabel' = ScanningLabel
  /\ btnDisabled' = TRUE
  /\ pendingScan' = pendingScan + 1
  /\ UNCHANGED << rows, networksVisible, formVars, saveVars >>

ScanCatchKeepsLabel ==
  /\ btnLabel' = btnLabel
  /\ btnDisabled' = FALSE

\* .catch(err => ...)
ScanCatch ==
  /\ btnLabel' = IdleLabel
  /\ btnDisabled' = FALSE

\* fetch('/scan') resolved with any HTTP status and a body that parses as
\* JSON: the .then(data => ...) handler, and the .catch when it throws
ScanResponse(status, data) ==
  /\ pendingScan > 0
  /\ pendingScan' = pendingScan - 1
  /\ rows' = RowsAfter(data)
  /\ networksVisible' = (IF data.isNull THEN networksVisible ELSE TRUE)
  /\ IF Throws(data)
     THEN ScanCatch
     ELSE btnLabel' = IdleLabel /\ btnDisabled' = FALSE
  /\ UNCHANGED << formVars, saveVars >>

\* fetch('/scan') rejected (network error) or response.json() rejected
\* (malformed JSON): only the .catch runs
ScanFail ==
  /\ pendingScan > 0
  /\ pendingScan' = pendingScan - 1
  /\ ScanCatch
  /\ UNCHANGED << rows, networksVisible, formVars, saveVars >>

\* item.onclick of row i
SelectRow(i) ==
  /\ i \in 1..Len(rows)
  /\ rows[i].hasOnclick
  /\ ssidField' = rows[i].ssid
  /\ UNCHANGED << passwordField, scanVars, saveVars >>

(* ---- the form ---------------------------------------------------------- *)

TypeSsid(v) ==
  /\ ssidField' = v
  /\ UNCHANGED << passwordField, scanVars, saveVars >>

TypePassword(v) ==
  /\ passwordField' = v
  /\ UNCHANGED << ssidField, scanVars, saveVars >>

RequiredNotChecked(v) == TRUE

\* the `required` attribute of input#ssid: the browser fires no submit event
\* while the field is empty
Required(v) == v # <<>>

\* configForm.onsubmit up to the fetch call
Submit ==
  /\ Required(ssidField)
  /\ BagCardinality(pendingSave) < MaxPendingSave
  /\ pendingSave' = pendingSave (+)
                      SetToBag({[ssid |-> ssidField, password |-> passwordField]})
  /\ UNCHANGED << successVisible, errorVisible, errorText, scanVars, formVars >>

ErrorLabelNoFallback(result) == <<Cross, result.message>>

\* '❌ ' + (result.message || 'エラー')
ErrorLabel(result) ==
  <<Cross, IF result.hasMessage /\ result.message # ""
           THEN result.message ELSE GenericError>>

SaveThenKeepsError(result) ==
  IF result.success
  THEN /\ successVisible' = TRUE
       /\ UNCHANGED << errorVisible, errorText >>
  ELSE /\ errorText' = ErrorLabel(result)
       /\ errorVisible' = TRUE
       /\ UNCHANGED successVisible

\* .then(result => ...)
SaveThen(result) ==
  IF result.success
  THEN /\ successVisible' = TRUE
       /\ errorVisible' = FALSE
       /\ UNCHANGED errorText
  ELSE /\ errorText' = ErrorLabel(result)
       /\ errorVisible' = TRUE
       /\ UNCHANGED successVisible

\* .catch(() => ...)
SaveCatch ==
  /\ errorVisible' = TRUE
  /\ UNCHANGED << successVisible, errorText >>

\* fetch('/save') resolved with any HTTP status and a JSON object
SaveResponse(body, status, result) ==
  /\ BagIn(body, pendingSave)
  /\ pendingSave' = pendingSave (-) SetToBag({body})
  /\ SaveThen(result)
  /\ UNCHANGED << scanVars, formVars >>

\* fetch('/save') rejected, response.json() rejected, or the body is JSON
\* null so that reading result.success throws
SaveFail(body) ==
  /\ BagIn(body, pendingSave)
  /\ pendingSave' = pendingSave (-) SetToBag({body})
  /\ SaveCatch
  /\ UNCHANGED << scanVars, formVars >>

Bodies == BagToSet(pendingSave)

Next ==
  \/ ClickScan
  \/ \E status \in Statuses, data \in ScanData : ScanResponse(status, data)
  \/ ScanFail
  \/ \E i \in 1..MaxNetworks : SelectRow(i)
  \/ \E v \in Ssids : TypeSsid(v)
  \/ \E v \in Passwords : TypePassword(v)
  \/ Submit
  \/ \E body \in Bodies, status \in Statuses, result \in SaveResults :
       SaveResponse(body, status, result)
  \/ \E body \in Bodies : SaveFail(body)

Spec == Init /\ [][Next]_vars

\* the page while the user never scans: the form and the /save exchange alone
\* (no scan step reads or writes a banner or an outstanding /save request,
\* and TypeSsid puts every SSID into the field that SelectRow can)
NextSave ==
  \/ \E v \in Ssids : TypeSsid(v)
  \/ \E v \in Passwords : TypePassword(v)
  \/ Submit
  \/ \E body \in Bodies, status \in Statuses, result \in SaveResults :
       SaveResponse(body, status, result)
  \/ \E body \in Bodies : SaveFail(body)

SpecSave == Init /\ [][NextSave]_vars

(* ---- properties -------------------------------------------------------- *)

Messages == { r.message : r \in SaveResults } \ {""}

Contains(text, m) == \E i \in 1..Len(text) : text[i] = m

NonOk(status) == status < 200 \/ status > 299

\* C1: at most one /scan request is in flight, and one is in flight exactly
\* when the scan button is disabled.
OneScanInFlight ==
  /\ pendingScan \in {0, 1}
  /\ (pendingScan = 1) <=> btnDisabled

\* a rescan is in flight while the list still shows an earlier scan's rows
RescanInFlight ==
  /\ pendingScan = 1
  /\ btnDisabled
  /\ Len(rows) = MaxNetworks

\* C2 (as claimed): the number of pending POST /save requests never exceeds 1.
AtMostOneSaveInFlight == BagCardinality(pendingSave) <= 1

\* C3: every /save request issued carries a non-empty ssid (its password may
\* be empty).
NoEmptySsidSaved == \A b \in BagToSet(pendingSave) : b.ssid # <<>>

\* a request with an empty password is outstanding while the field is empty
\* and a row with an empty ssid is in the list
EmptyPasswordSaved ==
  /\ ssidField = <<>>
  /\ \E i \in 1..Len(rows) : rows[i].hasOnclick /\ rows[i].ssid = <<>>
  /\ \E b \in BagToSet(pendingSave) : b.password = ""

\* C4: handling a /save response with success = true leaves the success
\* banner visible and the error banner hidden, whatever they showed before.
SuccessHidesError ==
  [][ \A body \in Bodies, status \in Statuses, result \in SaveResults :
        (result.success /\ SaveResponse(body, status, result))
          => (successVisible' /\ ~errorVisible') ]_vars

\* success shown after an earlier rejection had shown a server message
SuccessAfterError ==
  /\ successVisible
  /\ ~errorVisible
  /\ errorText # <<Cross, GenericError>>

\* C5 (as claimed): after a transport failure of /save is handled, the error
\* banner is visible and its text is the generic error label.
TransportFailureShowsGeneric ==
  [][ \A body \in Bodies :
        SaveFail(body)
          => (errorVisible' /\ errorText' = <<Cross, GenericError>>) ]_vars

\* C6 (as claimed): a /save response with a non-2xx status never makes the
\* success banner appear, and a /scan response with a non-2xx status never
\* changes the network list.
NonOkIsFailure ==
  [][ /\ \A body \in Bodies, status \in Statuses, result \in SaveResults :
           (NonOk(status) /\ SaveResponse(body, status, result))
             => (successVisible' => successVisible)
      /\ \A status \in Statuses, data \in ScanData :
           (NonOk(status) /\ ScanResponse(status, data))
             => (rows' = rows /\ networksVisible' = networksVisible) ]_vars

\* C7: handling a /save response with success = false leaves the error
\* banner visible, its text containing the response's message when that is
\* non-empty and being the generic label otherwise, and no other message.
RejectionShowsMessage ==
  [][ \A body \in Bodies, status \in Statuses, result \in SaveResults :
        (~result.success /\ SaveResponse(body, status, result))
          => /\ errorVisible'
             /\ IF result.hasMessage /\ result.message # ""
                THEN Contains(errorText', result.message)
                ELSE errorText' = <<Cross, GenericError>>
             /\ \A m \in Messages \ {result.message} :
                  ~Contains(errorText', m) ]_vars

\* a rejection's message is on display after a successful save
MessageShown ==
  /\ errorVisible
  /\ successVisible
  /\ Contains(errorText, "bad password")

\* what the claim expects the list to hold after a well-formed response
RowsOf(data, list) ==
  IF data.hasNetworks /\ Len(data.networks) > 0
  THEN /\ Len(list) = Len(data.networks)
       /\ \A i \in 1..Len(list) :
            /\ list[i].hasOnclick
            /\ list[i].ssid = data.networks[i].ssid
            /\ list[i].shown = data.networks[i].ssid
            /\ list[i].signal = data.networks[i].rssi
  ELSE /\ Len(list) = 1
       /\ ~list[1].hasOnclick
       /\ list[1].shown = NotFound

\* C8 (as claimed): after a well-formed /scan response the list holds exactly
\* that response's rows, in order, each selectable and showing the given
\* SSID and RSSI, or one non-selectable placeholder when there are none.
ListShowsResponse ==
  [][ \A status \in Statuses, data \in ScanData :
        (~Throws(data) /\ ScanResponse(status, data))
          => RowsOf(data, rows') ]_vars

\* C9: whenever a /scan request completes, with any outcome, the scan button
\* is enabled with its idle label afterwards and the error banner is as it
\* was before.
ScanAlwaysResets ==
  [][ (pendingScan' < pendingScan)
        => /\ ~btnDisabled'
           /\ btnLabel' = IdleLabel
           /\ errorVisible' = errorVisible ]_vars

\* the handler threw after it had emptied the list: the button is idle again
\* and no error is shown
FailedScanReset ==
  /\ rows = <<>>
  /\ networksVisible
  /\ pendingScan = 0
  /\ ~btnDisabled
  /\ btnLabel = IdleLabel
  /\ ~errorVisible

\* C10 (as claimed): the success and error banners are never both visible.
BannersExclusive == ~(successVisible /\ errorVisible)

====
